---- MODULE Spec2Model ----
(***************************************************************************)
(* Credential lifecycle of the gdrive server: loadOrRefreshCredentials,    *)
(* authenticateAndSaveCredentials, startServer and the setInterval refresh *)
(* timer.  Time is counted in minutes.  The functions are async, so each   *)
(* invocation is a frame that runs atomically between its awaits.          *)
(***************************************************************************)
EXTENDS Integers, FiniteSets, Sequences, TLC

\* ---- program constants (minutes) ----
FiveMinutes == 5
RefreshPeriod == 45

\* ---- bounds of the model ----
MaxTicks == 2
MaxTime == 90
MaxToolCalls == 3
Step == 15
TokenLifetime == 60

VARIABLES now, store, bound, pc, exitCode, timerOn, nextFire, fired,
          frames, served, anyFail,
          browser, page, launches, tool

gvars == <<now, store, bound, pc, exitCode, timerOn, nextFire, fired,
           frames, served, anyFail>>

bvars == <<browser, page, launches, tool>>

vars == <<gvars, bvars>>

Frames == 0..MaxTicks

\* ---- credential records and the contents of the credentials file ----
Rec(src, refresh, ekind, expiry) ==
    [kind |-> "rec", src |-> src, refresh |-> refresh, ekind |-> ekind, expiry |-> expiry]

NoRec == [kind |-> "none", src |-> "-", refresh |-> "none", ekind |-> "missing", expiry |-> 0]
Absent == [kind |-> "absent", src |-> "-", refresh |-> "none", ekind |-> "missing", expiry |-> 0]
Corrupt == [kind |-> "corrupt", src |-> "-", refresh |-> "none", ekind |-> "missing", expiry |-> 0]

\* expiry_date values a credentials file found at start can hold
InitExpiries == {-1, 4, 5, 10}

InitStores ==
    {Absent, Corrupt}
    \cup {Rec("file", r, "num", e) : r \in {"none", "r1"}, e \in InitExpiries}
    \cup {Rec("file", r, k, 0) : r \in {"none", "r1"}, k \in {"missing", "null", "text"}}

ExpiryTime_MissingAsEpoch(rec) ==
    IF rec.ekind = "num" THEN [nan |-> FALSE, ms |-> rec.expiry] ELSE [nan |-> FALSE, ms |-> 0]

\* new Date(savedCreds.expiry_date).getTime(): a number gives itself, null
\* gives 0, undefined and unparsable text give NaN
ExpiryTime(rec) ==
    CASE rec.ekind = "num" -> [nan |-> FALSE, ms |-> rec.expiry]
      [] rec.ekind = "null" -> [nan |-> FALSE, ms |-> 0]
      [] OTHER -> [nan |-> TRUE, ms |-> 0]

NeedsRefresh_Inclusive(rec, t) ==
    LET e == ExpiryTime(rec) IN ~e.nan /\ e.ms - t <= FiveMinutes

NeedsRefresh_Flipped(rec, t) ==
    LET e == ExpiryTime(rec) IN ~e.nan /\ e.ms - t > FiveMinutes

\* expiryDate.getTime() - now.getTime() < fiveMinutes (false on NaN)
NeedsRefresh(rec, t) ==
    LET e == ExpiryTime(rec) IN ~e.nan /\ e.ms - t < FiveMinutes

\* credentials of a token response: expiry_date = now + lifetime; the
\* refresh token is carried over
RefreshedCreds(rec, t) == Rec("refresh", rec.refresh, "num", t + TokenLifetime)

\* credentials of the client returned by authenticate()
AuthCreds(t) == Rec("auth", "r2", "num", t + TokenLifetime)

ReturnedAfterRefresh_NoSet(saved, newCreds) == saved

\* oauth2Client.setCredentials(newCreds); return oauth2Client
ReturnedAfterRefresh(saved, newCreds) == newCreds

\* ---- frames: one per invocation of loadOrRefreshCredentials ----
IdleFrame ==
    [pc |-> "idle", via |-> "-", saved |-> NoRec, auth |-> NoRec,
     nAuth |-> 0, nRefresh |-> 0, nAuthRefresh |-> 0, nWrite |-> 0,
     refreshOK |-> "-", writeFail |-> FALSE,
     ret |-> NoRec, t0 |-> 0, tRet |-> 0,
     storeAtCall |-> NoRec, storeAtRet |-> NoRec, alone |-> FALSE]

InFlight(fr) == fr.pc \in {"awaitRefresh", "awaitAuth", "awaitAuthRefresh"}
Done(fr) == fr.pc \in {"returned", "threw"}

\* authenticateAndSaveCredentials up to its await of authenticate()
BeginAuth(fr, via) ==
    [fr EXCEPT !.pc = "awaitAuth", !.via = via, !.nAuth = @ + 1]

Return(fr, rec) == [fr EXCEPT !.pc = "returned", !.ret = rec]

Throw(fr) == [fr EXCEPT !.pc = "threw"]

\* loadOrRefreshCredentials from its call to its first await or its return
LoadStart(st, t) ==
    LET fr == [IdleFrame EXCEPT !.t0 = t, !.storeAtCall = st] IN
    IF st.kind = "absent" THEN BeginAuth(fr, "absent")
    ELSE IF st.kind = "corrupt" THEN BeginAuth(fr, "catch")
    ELSE LET ld == [fr EXCEPT !.saved = st] IN
         IF NeedsRefresh(st, t)
         THEN IF st.refresh # "none"
              THEN [ld EXCEPT !.pc = "awaitRefresh", !.nRefresh = @ + 1]
              ELSE BeginAuth(ld, "norefresh")
         ELSE Return(ld, st)

\* ---- the callers' continuations ----
OnReturn_NoBind(f, rec) ==
    /\ bound' = bound
    /\ pc' = IF f = 0 THEN "connecting" ELSE pc
    /\ exitCode' = exitCode

OnReturn(f, rec) ==
    /\ bound' = rec
    /\ pc' = IF f = 0 THEN "connecting" ELSE pc
    /\ exitCode' = exitCode

OnThrow_Swallow(f) ==
    /\ bound' = bound
    /\ pc' = IF f = 0 THEN "connecting" ELSE pc
    /\ exitCode' = exitCode

OnThrow_Unbind(f) ==
    /\ bound' = NoRec
    /\ pc' = IF f = 0 THEN "exited" ELSE pc
    /\ exitCode' = IF f = 0 THEN 1 ELSE exitCode

\* startServer's catch: process.exit(1); the timer callback's catch: log only
OnThrow(f) ==
    /\ bound' = bound
    /\ pc' = IF f = 0 THEN "exited" ELSE pc
    /\ exitCode' = IF f = 0 THEN 1 ELSE exitCode

OthersInFlight(f) == \E g \in Frames \ {f} : InFlight(frames[g])

\* frame f goes on as fr with the file holding st
Continue(f, fr, st) ==
    LET stamped == IF Done(fr)
                   THEN [fr EXCEPT !.tRet = now, !.storeAtRet = st,
                                   !.alone = ~OthersInFlight(f)]
                   ELSE fr
    IN /\ frames' = [frames EXCEPT ![f] = stamped]
       /\ store' = st
       /\ IF fr.pc = "returned" THEN OnReturn(f, fr.ret)
          ELSE IF fr.pc = "threw" THEN OnThrow(f)
          ELSE /\ pc' = IF f = 0 THEN "starting" ELSE pc
               /\ UNCHANGED <<bound, exitCode>>

\* ---- the puppeteer server: ensureBrowser and handleToolCall ----
ToolCalls == 1..MaxToolCalls

IdleCall == [pc |-> "idle", mine |-> 0, got |-> 0]

\* let browser, page: undefined (0) until assigned the k-th launched browser / its page
InitBrowserState ==
    /\ browser = 0
    /\ page = 0
    /\ launches = 0
    /\ tool = [c \in ToolCalls |-> IdleCall]

Init ==
    /\ now = 0
    /\ store \in InitStores
    /\ bound = NoRec
    /\ pc = "init"
    /\ exitCode = 0
    /\ timerOn = FALSE
    /\ nextFire = 0
    /\ fired = 0
    /\ frames = [f \in Frames |-> IdleFrame]
    /\ served = FALSE
    /\ anyFail = FALSE
    /\ InitBrowserState

\* startServer: const auth = await loadOrRefreshCredentials()
StartServer ==
    /\ pc = "init"
    /\ Continue(0, LoadStart(store, now), store)
    /\ UNCHANGED <<now, timerOn, nextFire, fired, served, anyFail, browser, page, launches, tool>>

RefreshResolve_IgnoreWriteError(f, ok, wok) ==
    LET fr == frames[f]
        newCreds == RefreshedCreds(fr.saved, now)
    IN /\ pc # "exited"
       /\ fr.pc = "awaitRefresh"
       /\ ~ok => wok
       /\ IF ok /\ wok
          THEN Continue(f, Return([fr EXCEPT !.refreshOK = "ok", !.nWrite = @ + 1],
                                  ReturnedAfterRefresh(fr.saved, newCreds)),
                        newCreds)
          ELSE IF ok
          THEN Continue(f, Return([fr EXCEPT !.refreshOK = "ok", !.nWrite = @ + 1,
                                             !.writeFail = TRUE],
                                  ReturnedAfterRefresh(fr.saved, newCreds)),
                        store)
          ELSE Continue(f, BeginAuth([fr EXCEPT !.refreshOK = "fail"], "catch"), store)
       /\ anyFail' = (anyFail \/ ~ok \/ ~wok)
       /\ UNCHANGED <<now, timerOn, nextFire, fired, served, browser, page, launches, tool>>

\* await oauth2Client.refreshAccessToken() settles; wok: writeFileSync succeeds
RefreshResolve(f, ok, wok) ==
    LET fr == frames[f]
        newCreds == RefreshedCreds(fr.saved, now)
    IN /\ pc # "exited"
       /\ fr.pc = "awaitRefresh"
       /\ ~ok => wok
       /\ IF ok /\ wok
          THEN Continue(f, Return([fr EXCEPT !.refreshOK = "ok", !.nWrite = @ + 1],
                                  ReturnedAfterRefresh(fr.saved, newCreds)),
                        newCreds)
          ELSE IF ok
          THEN Continue(f, BeginAuth([fr EXCEPT !.refreshOK = "ok", !.nWrite = @ + 1,
                                                !.writeFail = TRUE], "catch"),
                        store)
          ELSE Continue(f, BeginAuth([fr EXCEPT !.refreshOK = "fail"], "catch"), store)
       /\ anyFail' = (anyFail \/ ~ok \/ ~wok)
       /\ UNCHANGED <<now, timerOn, nextFire, fired, served, browser, page, launches, tool>>

\* await authenticate(...) settles
AuthResolve(f, ok) ==
    LET fr == frames[f]
    IN /\ pc # "exited"
       /\ fr.pc = "awaitAuth"
       /\ IF ok
          THEN Continue(f, [fr EXCEPT !.pc = "awaitAuthRefresh", !.auth = AuthCreds(now),
                                      !.nAuthRefresh = @ + 1],
                        store)
          ELSE IF fr.via = "norefresh"
          THEN Continue(f, BeginAuth(fr, "catch"), store)
          ELSE Continue(f, Throw(fr), store)
       /\ anyFail' = (anyFail \/ ~ok)
       /\ UNCHANGED <<now, timerOn, nextFire, fired, served, browser, page, launches, tool>>

\* await auth.refreshAccessToken() in authenticateAndSaveCredentials settles
AuthRefreshResolve(f, ok, wok) ==
    LET fr == frames[f]
        credentials == RefreshedCreds(fr.auth, now)
    IN /\ pc # "exited"
       /\ fr.pc = "awaitAuthRefresh"
       /\ ~ok => wok
       /\ IF ok /\ wok
          THEN Continue(f, Return([fr EXCEPT !.nWrite = @ + 1], credentials), credentials)
          ELSE IF ok
          THEN Continue(f, Return([fr EXCEPT !.nWrite = @ + 1, !.writeFail = TRUE], fr.auth),
                        store)
          ELSE Continue(f, Return(fr, fr.auth), store)
       /\ anyFail' = (anyFail \/ ~ok \/ ~wok)
       /\ UNCHANGED <<now, timerOn, nextFire, fired, served, browser, page, launches, tool>>

\* await server.connect(transport) settles; then setupTokenRefresh()
Connect(ok) ==
    /\ pc = "connecting"
    /\ IF ok
       THEN /\ pc' = "serving"
            /\ timerOn' = TRUE
            /\ nextFire' = now + RefreshPeriod
            /\ exitCode' = exitCode
       ELSE /\ pc' = "exited"
            /\ exitCode' = 1
            /\ UNCHANGED <<timerOn, nextFire>>
    /\ anyFail' = (anyFail \/ ~ok)
    /\ UNCHANGED <<now, store, bound, fired, frames, served, browser, page, launches, tool>>

TimerDue == timerOn /\ now >= nextFire /\ fired < MaxTicks

\* the setInterval callback starts: await loadOrRefreshCredentials()
TimerFire ==
    /\ pc = "serving"
    /\ TimerDue
    /\ fired' = fired + 1
    /\ nextFire' = nextFire + RefreshPeriod
    /\ Continue(fired + 1, LoadStart(store, now), store)
    /\ UNCHANGED <<now, timerOn, served, anyFail, browser, page, launches, tool>>

\* a request handler runs with the credential set by google.options
Serve ==
    /\ pc = "serving"
    /\ served' = TRUE
    /\ UNCHANGED <<now, store, bound, pc, exitCode, timerOn, nextFire, fired, frames, anyFail, browser, page, launches, tool>>

\* the clock moves on while the process waits
Advance ==
    /\ pc \notin {"init", "exited"}
    /\ ~TimerDue
    /\ now + Step <= MaxTime
    /\ now' = now + Step
    /\ UNCHANGED <<store, bound, pc, exitCode, timerOn, nextFire, fired, frames, served, anyFail, browser, page, launches, tool>>

Next ==
    \/ StartServer
    \/ \E f \in Frames, ok \in BOOLEAN, wok \in BOOLEAN : RefreshResolve(f, ok, wok)
    \/ \E f \in Frames, ok \in BOOLEAN : AuthResolve(f, ok)
    \/ \E f \in Frames, ok \in BOOLEAN, wok \in BOOLEAN : AuthRefreshResolve(f, ok, wok)
    \/ \E ok \in BOOLEAN : Connect(ok)
    \/ TimerFire
    \/ Serve
    \/ Advance

Spec == Init /\ [][Next]_vars

\* the gdrive process is not part of the puppeteer server's runs
InitBrowser ==
    /\ now = 0
    /\ store = Absent
    /\ bound = NoRec
    /\ pc = "init"
    /\ exitCode = 0
    /\ timerOn = FALSE
    /\ nextFire = 0
    /\ fired = 0
    /\ frames = [f \in Frames |-> IdleFrame]
    /\ served = FALSE
    /\ anyFail = FALSE
    /\ InitBrowserState

\* handleToolCall calls ensureBrowser: if (!browser) await puppeteer.launch(),
\* else return page
EnsureBrowserStart(c) ==
    /\ tool[c].pc = "idle"
    /\ IF browser = 0
       THEN /\ launches' = launches + 1
            /\ tool' = [tool EXCEPT ![c] = [pc |-> "awaitLaunch", mine |-> launches + 1, got |-> 0]]
       ELSE /\ launches' = launches
            /\ tool' = [tool EXCEPT ![c] = [pc |-> "hasPage", mine |-> 0, got |-> page]]
    /\ UNCHANGED <<browser, page, gvars>>

\* browser = (the launched browser); await browser.pages()
LaunchResolve(c) ==
    /\ tool[c].pc = "awaitLaunch"
    /\ browser' = tool[c].mine
    /\ tool' = [tool EXCEPT ![c].pc = "awaitPages"]
    /\ UNCHANGED <<page, launches, gvars>>

\* page = pages[0]; return page
PagesResolve(c) ==
    /\ tool[c].pc = "awaitPages"
    /\ page' = tool[c].mine
    /\ tool' = [tool EXCEPT ![c].pc = "hasPage", ![c].got = tool[c].mine]
    /\ UNCHANGED <<browser, launches, gvars>>

\* handleToolCall works on the page it got (page.goto, page.click, ...)
UsePage(c) ==
    /\ tool[c].pc = "hasPage"
    /\ tool' = [tool EXCEPT ![c].pc = "done"]
    /\ UNCHANGED <<browser, page, launches, gvars>>

NextBrowser ==
    \/ \E c \in ToolCalls : EnsureBrowserStart(c)
    \/ \E c \in ToolCalls : LaunchResolve(c)
    \/ \E c \in ToolCalls : PagesResolve(c)
    \/ \E c \in ToolCalls : UsePage(c)

SpecBrowser == InitBrowser /\ [][NextBrowser]_vars

\* ---- properties ----
Calls == {f \in Frames : frames[f].pc # "idle"}

\* the loaded record has a numeric expiry less than five minutes after the call
NearExpiry(fr) ==
    /\ fr.saved.kind = "rec"
    /\ fr.saved.ekind = "num"
    /\ fr.saved.expiry - fr.t0 < FiveMinutes

\* the loaded record has a numeric expiry at least five minutes after the call
StillValid(fr) ==
    /\ fr.saved.kind = "rec"
    /\ fr.saved.ekind = "num"
    /\ fr.saved.expiry - fr.t0 >= FiveMinutes

\* C1: a call that loads a near-expiry record without refresh_token invokes
\* authenticate exactly once and calls refreshAccessToken not at all, whether
\* authenticate succeeds or fails.
C1_OneAuthNoRefresh ==
    \A f \in Frames :
        LET fr == frames[f] IN
        (Done(fr) /\ NearExpiry(fr) /\ fr.saved.refresh = "none")
            => (fr.nAuth = 1 /\ fr.nRefresh = 0 /\ fr.nAuthRefresh = 0)

\* C2: when a call returns with no other call in flight, the credentials file
\* holds exactly the returned credentials.
C2_StoreHoldsReturned ==
    \A f \in Frames :
        LET fr == frames[f] IN
        (fr.pc = "returned" /\ fr.alone) => fr.storeAtRet = fr.ret

\* C3: while the server runs and no refresh or authorization has failed, the
\* credentials bound by google.options expire later than now.
C3_BoundFresh ==
    (pc = "serving" /\ ~anyFail /\ bound.ekind = "num") => bound.expiry > now

\* C4: every timer tick makes one call, failures do not stop the process, and a
\* tick whose call fails has attempted authenticate and the silent refresh at
\* most once each.
C4_OneAttemptPerTick ==
    /\ fired = Cardinality(Calls \ {0})
    /\ \A f \in Frames \ {0} :
           frames[f].pc = "threw"
               => (pc = "serving" /\ frames[f].nAuth <= 1 /\ frames[f].nRefresh <= 1)

\* C5: a call that loads a record expiring five minutes or more after the call
\* returns that record at once, with no refresh, no authenticate and no write.
C5_ValidReused ==
    \A f \in Frames :
        LET fr == frames[f] IN
        (fr.pc # "idle" /\ StillValid(fr))
            => /\ fr.pc = "returned"
               /\ fr.ret = fr.saved
               /\ fr.nRefresh = 0 /\ fr.nAuth = 0 /\ fr.nAuthRefresh = 0 /\ fr.nWrite = 0
               /\ fr.tRet = fr.t0
               /\ fr.storeAtRet = fr.storeAtCall

C5_Witness ==
    \E f \in Frames :
        /\ frames[f].pc = "returned"
        /\ StillValid(frames[f])
        /\ frames[f].saved.expiry - frames[f].t0 = FiveMinutes

\* what C6 promises of a call once it has finished
RefreshedResult(fr) ==
    /\ fr.pc = "returned"
    /\ fr.nRefresh = 1 /\ fr.nAuth = 0
    /\ fr.ret.ekind = "num"
    /\ fr.ret.expiry > fr.saved.expiry
    /\ fr.ret.expiry > fr.tRet
    /\ fr.ret.refresh # "none"
    /\ fr.storeAtRet = fr.ret

C7_FallbackPersists ==
    \A f \in Frames :
        LET fr == frames[f] IN
        (NearExpiry(fr) /\ fr.saved.refresh # "none" /\ fr.refreshOK = "fail")
            => /\ fr.nAuth >= 1
               /\ (Done(fr) /\ fr.auth.kind = "rec")
                      => (fr.pc = "returned" /\ fr.ret.refresh = fr.auth.refresh
                          /\ fr.storeAtRet = fr.ret)

\* C8: a call that finds the credentials file absent or unreadable invokes
\* authenticate exactly once, and when authenticate succeeds it returns its
\* credentials and the credentials file holds them.
C8_AbsentOrCorrupt ==
    \A f \in Frames :
        LET fr == frames[f] IN
        (Done(fr) /\ fr.storeAtCall.kind \in {"absent", "corrupt"})
            => /\ fr.nAuth = 1
               /\ fr.nRefresh = 0
               /\ fr.auth.kind = "rec"
                      => (fr.pc = "returned" /\ fr.ret.refresh = fr.auth.refresh
                          /\ fr.storeAtRet = fr.ret)

\* C9: after a call has returned fresh credentials, a second call made at the
\* same time on the same credentials file returns the same credentials at once,
\* with no refresh, no authenticate and no write.
C9_Idempotent ==
    \A f \in Frames :
        LET fr == frames[f]
            again == LoadStart(fr.storeAtRet, fr.tRet)
        IN (fr.pc = "returned" /\ fr.alone /\ fr.ret.ekind = "num"
                /\ fr.ret.expiry - fr.tRet >= FiveMinutes)
               => /\ again.pc = "returned"
                  /\ again.ret = fr.ret
                  /\ again.nRefresh = 0 /\ again.nAuth = 0 /\ again.nWrite = 0

\* C10: when the call made by startServer throws, the process has exited with
\* a non-zero status, no credentials are bound, no request was served and the
\* refresh timer was never started.
C10_StartupFailureExits ==
    frames[0].pc = "threw"
        => /\ pc = "exited"
           /\ exitCode # 0
           /\ bound = NoRec
           /\ ~served
           /\ ~timerOn
           /\ fired = 0

C10_Witness == frames[0].pc = "threw" /\ frames[0].nAuth >= 1 /\ pc = "exited"

\* C11: at most one call of loadOrRefreshCredentials is in flight at any time:
\* no timer tick starts a call while an earlier one has not settled.
C11_OneInFlight ==
    Cardinality({f \in Frames : InFlight(frames[f])}) <= 1

\* C12: a tick whose call throws leaves the bound credentials as they were,
\* and the bound credentials change only when a call returns.
C12_FailedTickKeepsBound ==
    [][/\ \A f \in Frames \ {0} :
              (frames[f].pc # "threw" /\ frames'[f].pc = "threw") => bound' = bound
       /\ bound' # bound
              => \E f \in Frames : /\ frames[f].pc # "returned"
                                   /\ frames'[f].pc = "returned"
                                   /\ bound' = frames'[f].ret]_vars

C12_Witness ==
    \E f \in Frames \ {0} : frames[f].pc = "threw" /\ bound.kind = "rec" /\ pc = "serving"

\* C13: requests are served and the refresh timer runs only after the call of
\* startServer has returned and its credentials were bound.
C13_StartupOrder ==
    /\ (served \/ timerOn \/ fired > 0 \/ pc = "serving")
           => (frames[0].pc = "returned" /\ bound.kind = "rec")
    /\ (served \/ fired > 0) => timerOn
    /\ pc \in {"init", "starting"} => (bound = NoRec /\ ~served /\ ~timerOn)

C13_Witness == served /\ fired > 0 /\ bound.kind = "rec"

\* C14: a call that loads a record whose expiry lies in the past returns only
\* after a silent refresh or an authorization was attempted, and does not
\* return the loaded record.
C14_ExpiredNeverReturned ==
    \A f \in Frames :
        LET fr == frames[f] IN
        (fr.pc = "returned" /\ fr.saved.kind = "rec" /\ fr.saved.ekind = "num"
             /\ fr.saved.expiry < fr.t0)
            => /\ fr.ret # fr.saved
               /\ IF fr.saved.refresh # "none" THEN fr.nRefresh = 1 ELSE fr.nAuth >= 1

C14_Witness ==
    \E f \in Frames :
        /\ frames[f].pc = "returned"
        /\ frames[f].saved.ekind = "num"
        /\ frames[f].saved.expiry < frames[f].t0
        /\ frames[f].saved.refresh # "none"

\* the write of the refreshed credentials threw in this call
RefreshWriteFailed(fr) == fr.refreshOK = "ok" /\ fr.writeFail

\* C15: when the silent refresh succeeds and the write of its credentials
\* fails, the step leaves the credentials file as it was and launches the auth
\* flow; the call then ends as the auth flow ends and never returns the
\* refreshed credentials.
C15_WriteFailureFallsThrough ==
    [][/\ \A f \in Frames :
              (frames[f].pc = "awaitRefresh" /\ RefreshWriteFailed(frames'[f]))
                  => (store' = store /\ frames'[f].pc = "awaitAuth" /\ bound' = bound)
       /\ \A f \in Frames :
              LET fr == frames'[f] IN
              RefreshWriteFailed(fr)
                  => /\ fr.nRefresh = 1 /\ fr.nAuth = 1
                     /\ fr.pc = "threw" => fr.auth.kind = "none"
                     /\ fr.pc = "returned"
                            => (fr.auth.kind = "rec" /\ fr.ret.refresh = fr.auth.refresh
                                /\ fr.ret.expiry >= fr.auth.expiry)]_vars

C15_Witness ==
    \E f \in Frames : RefreshWriteFailed(frames[f]) /\ frames[f].pc = "returned"

\* what C16 promises of a call
ReusedUnchanged(fr) ==
    /\ fr.pc = "returned"
    /\ fr.ret = fr.saved
    /\ fr.nRefresh = 0 /\ fr.nAuth = 0 /\ fr.nAuthRefresh = 0 /\ fr.nWrite = 0
    /\ fr.storeAtRet = fr.storeAtCall

\* C16 (as claimed): a call that loads a record whose expiry_date is missing or
\* not a number returns it unchanged, with no refresh, no authorization and no
\* write, whatever the time and whether or not it has a refresh_token.
C16_Original ==
    \A f \in Frames :
        LET fr == frames[f] IN
        (fr.pc # "idle" /\ fr.saved.kind = "rec" /\ fr.saved.ekind # "num")
            => ReusedUnchanged(fr)

\* C16 (amended): the same, for the records whose expiry_date is missing or is
\* text that Date cannot parse (a null expiry_date counts as time 0).
C16_NoExpiryReused ==
    \A f \in Frames :
        LET fr == frames[f] IN
        (fr.pc # "idle" /\ fr.saved.kind = "rec" /\ fr.saved.ekind \in {"missing", "text"})
            => ReusedUnchanged(fr)

C16_Witness ==
    \E f \in Frames \ {0} :
        /\ frames[f].pc = "returned"
        /\ frames[f].saved.ekind = "missing"
        /\ frames[f].saved.refresh # "none"
        /\ frames[f].t0 > 0

\* C17: puppeteer.launch is called at most once, and every tool call that got
\* past ensureBrowser holds a defined page.
C17_SingleLaunchDefinedPage ==
    /\ launches <= 1
    /\ \A c \in ToolCalls : tool[c].pc \in {"hasPage", "done"} => tool[c].got # 0
====
